---- MODULE Spec2Model ----
(***************************************************************************)
(* Model of src/api.js: the upload proxy handler.  One request is followed *)
(* from the method check to the single response it receives.               *)
(*                                                                         *)
(* Buffers are sequences of bytes (0..255); JavaScript strings are         *)
(* sequences of UTF-16 code units.  Offsets are 0-based as in the source,  *)
(* and -1 is the "not found" result of indexOf.  A nullable value is       *)
(* <<>> (null / undefined / header absent) or <<v>>.                       *)
(***************************************************************************)
EXTENDS Integers, Sequences, FiniteSets, TLC

None == <<>>
Some(v) == <<v>>

(***************************************************************************)
(* Byte and string literals of the source.                                 *)
(***************************************************************************)
\* "--"                                              (api.js line 40)
DashDash == <<45, 45>>
\* "\r\n\r\n"                                        (api.js line 56)
HeaderSep == <<13, 10, 13, 10>>
\* the literal prefix boundary= of /boundary=(.*)$/  (api.js line 11)
BoundaryTok == <<98, 111, 117, 110, 100, 97, 114, 121, 61>>
\* the literal prefix filename=" of /filename="(.+?)"/  (api.js line 60)
FilenameTok == <<102, 105, 108, 101, 110, 97, 109, 101, 61, 34>>
\* the closing " of /filename="(.+?)"/               (api.js line 60)
QuoteChar == <<34>>
\* "file.pdf", the initial value of filename         (api.js line 53)
DefaultFilename == <<102, 105, 108, 101, 46, 112, 100, 102>>

\* The characters the regular-expression atom . does not match: LF, CR,
\* U+2028 and U+2029 (no s flag on either pattern).
LineTerminators == {10, 13, 8232, 8233}

(***************************************************************************)
(* Buffer primitives.                                                      *)
(***************************************************************************)
Min(a, b) == IF a < b THEN a ELSE b
Max(a, b) == IF a > b THEN a ELSE b

\* buf.slice(from, to): a negative offset counts from the end, both offsets
\* are clamped to the buffer, an inverted range is empty.
Slice(buf, from, to) ==
  LET n == Len(buf)
      f == IF from < 0 THEN Max(n + from, 0) ELSE Min(from, n)
      t == IF to < 0 THEN Max(n + to, 0) ELSE Min(to, n)
  IN  IF t <= f THEN <<>> ELSE SubSeq(buf, f + 1, t)

\* buf.slice(from)
SliceFrom(buf, from) == Slice(buf, from, Len(buf))

\* needle occupies buf[at .. at + Len(needle))
MatchesAt(buf, needle, at) ==
  /\ at >= 0
  /\ at + Len(needle) <= Len(buf)
  /\ \A k \in 1..Len(needle) : buf[at + k] = needle[k]

\* buf.indexOf(needle, from): the scan of the first occurrence at or after from.
RECURSIVE IndexOf(_, _, _)
IndexOf(buf, needle, from) ==
  IF from + Len(needle) > Len(buf) THEN -1
  ELSE IF MatchesAt(buf, needle, from) THEN from
  ELSE IndexOf(buf, needle, from + 1)

\* Buffer.concat(chunks)
RECURSIVE Concat(_)
Concat(cs) == IF cs = <<>> THEN <<>> ELSE Head(cs) \o Concat(Tail(cs))

(***************************************************************************)
(* UTF-8.  Buffer.from(string) encodes, buf.toString("utf8") decodes; an   *)
(* ill-formed sequence decodes to U+FFFD, one per maximal subpart.         *)
(***************************************************************************)
IsCont(b) == b >= 128 /\ b <= 191

\* Code units of a code point (a surrogate pair above the BMP).
CodeUnits(cp) ==
  IF cp < 65536 THEN <<cp>>
  ELSE <<55296 + ((cp - 65536) \div 1024), 56320 + ((cp - 65536) % 1024)>>

\* Range allowed for the second byte of a sequence led by b0.
SecondLo(b0) == IF b0 = 224 THEN 160 ELSE IF b0 = 240 THEN 144 ELSE 128
SecondHi(b0) == IF b0 = 237 THEN 159 ELSE IF b0 = 244 THEN 143 ELSE 191

\* Number of bytes a sequence led by b0 announces (0: not a lead byte).
SeqLen(b0) ==
  IF b0 < 128 THEN 1
  ELSE IF b0 >= 194 /\ b0 <= 223 THEN 2
  ELSE IF b0 >= 224 /\ b0 <= 239 THEN 3
  ELSE IF b0 >= 240 /\ b0 <= 244 THEN 4
  ELSE 0

\* Length of the longest well-formed prefix of the sequence starting at
\* offset at (at least 1).
GoodPrefix(buf, at) ==
  LET b0 == buf[at + 1]
      n == SeqLen(b0)
      has(k) == at + k <= Len(buf)
      ok2 == has(2) /\ buf[at + 2] >= SecondLo(b0) /\ buf[at + 2] <= SecondHi(b0)
      ok3 == ok2 /\ has(3) /\ IsCont(buf[at + 3])
      ok4 == ok3 /\ has(4) /\ IsCont(buf[at + 4])
  IN  IF n <= 1 THEN 1
      ELSE IF ~ok2 THEN 1
      ELSE IF n = 2 THEN 2
      ELSE IF ~ok3 THEN 2
      ELSE IF n = 3 THEN 3
      ELSE IF ~ok4 THEN 3
      ELSE 4

\* Code point of the well-formed n-byte sequence at offset at.
Scalar(buf, at, n) ==
  LET b(k) == buf[at + k]
  IN  IF n = 1 THEN b(1)
      ELSE IF n = 2 THEN (b(1) - 192) * 64 + (b(2) - 128)
      ELSE IF n = 3 THEN (b(1) - 224) * 4096 + (b(2) - 128) * 64 + (b(3) - 128)
      ELSE (b(1) - 240) * 262144 + (b(2) - 128) * 4096
           + (b(3) - 128) * 64 + (b(4) - 128)

RECURSIVE Utf8DecodeFrom(_, _)
Utf8DecodeFrom(buf, at) ==
  IF at >= Len(buf) THEN <<>>
  ELSE LET n == SeqLen(buf[at + 1])
           g == GoodPrefix(buf, at)
       IN  IF n >= 1 /\ g = n
           THEN CodeUnits(Scalar(buf, at, n)) \o Utf8DecodeFrom(buf, at + n)
           ELSE <<65533>> \o Utf8DecodeFrom(buf, at + g)

\* buf.toString("utf8")
Utf8Decode(buf) == Utf8DecodeFrom(buf, 0)

IsHigh(u) == u >= 55296 /\ u <= 56319
IsLow(u) == u >= 56320 /\ u <= 57343

\* Bytes of one code point.
Utf8Bytes(cp) ==
  IF cp < 128 THEN <<cp>>
  ELSE IF cp < 2048 THEN <<192 + (cp \div 64), 128 + (cp % 64)>>
  ELSE IF cp < 65536
  THEN <<224 + (cp \div 4096), 128 + ((cp \div 64) % 64), 128 + (cp % 64)>>
  ELSE <<240 + (cp \div 262144), 128 + ((cp \div 4096) % 64),
         128 + ((cp \div 64) % 64), 128 + (cp % 64)>>

\* Buffer.from(str): a surrogate pair is one code point, a lone surrogate
\* is encoded as U+FFFD.
RECURSIVE Utf8Encode(_)
Utf8Encode(str) ==
  IF str = <<>> THEN <<>>
  ELSE LET u == Head(str)
       IN  IF IsHigh(u) /\ Len(str) >= 2 /\ IsLow(str[2])
           THEN Utf8Bytes(65536 + (u - 55296) * 1024 + (str[2] - 56320))
                \o Utf8Encode(Tail(Tail(str)))
           ELSE IF IsHigh(u) \/ IsLow(u)
           THEN Utf8Bytes(65533) \o Utf8Encode(Tail(str))
           ELSE Utf8Bytes(u) \o Utf8Encode(Tail(str))

(***************************************************************************)
(* The two regular expressions.                                            *)
(***************************************************************************)
NoLineTerminator(str, from, to) ==
  \A k \in (from + 1)..to : str[k] \notin LineTerminators

\* contentType.match(/boundary=(.*)$/) tried at the start offsets at, at + 1,
\* ...: the token must be followed by line-terminator-free text up to the end
\* of the input; the capture is that text.
RECURSIVE BoundaryMatchFrom(_, _)
BoundaryMatchFrom(str, at) ==
  IF at + Len(BoundaryTok) > Len(str) THEN None
  ELSE IF /\ MatchesAt(str, BoundaryTok, at)
          /\ NoLineTerminator(str, at + Len(BoundaryTok), Len(str))
       THEN Some(SliceFrom(str, at + Len(BoundaryTok)))
       ELSE BoundaryMatchFrom(str, at + 1)

\* A pattern that stops at the next semicolon, /boundary=([^;]*)/.
getBoundaryFirstParam(contentType) ==
  LET m == BoundaryMatchFrom(contentType, 0)
      semi == IF m = None THEN -1 ELSE IndexOf(m[1], <<59>>, 0)
  IN  IF m = None \/ semi = -1 THEN m ELSE Some(Slice(m[1], 0, semi))

\* function getBoundary(contentType), for a contentType that is a string.
getBoundary(contentType) == BoundaryMatchFrom(contentType, 0)

\* The lazy (.+?)" from offset k on: the offset of the first closing quote,
\* -1 when a line terminator or the end of the text comes first.
RECURSIVE CloseQuote(_, _)
CloseQuote(str, k) ==
  IF k >= Len(str) THEN -1
  ELSE IF str[k + 1] = QuoteChar[1] THEN k
  ELSE IF str[k + 1] \in LineTerminators THEN -1
  ELSE CloseQuote(str, k + 1)

\* header.match(/filename="(.+?)"/) tried at the start offsets at, at + 1, ...;
\* the capture needs one character that is no line terminator (it may be a
\* quote) before the closing quote is looked for.
RECURSIVE FileMatchFrom(_, _)
FileMatchFrom(str, at) ==
  LET c == at + Len(FilenameTok)
      q == IF c < Len(str) /\ str[c + 1] \notin LineTerminators
           THEN CloseQuote(str, c + 1) ELSE -1
  IN  IF c > Len(str) THEN None
      ELSE IF MatchesAt(str, FilenameTok, at) /\ q # -1
      THEN Some(Slice(str, c, q))
      ELSE FileMatchFrom(str, at + 1)

\* fileMatch of line 60, as null or the capture fileMatch[1].
fileMatch(header) == FileMatchFrom(header, 0)

\* !x for a nullable string: null and "" are falsy.
Falsy(x) == x = None \/ x[1] = <<>>

(***************************************************************************)
(* Inputs of one request.                                                  *)
(***************************************************************************)
\* Largest number of parts of an enumerated multipart body.
MaxParts == 3
\* Longest run of hyphens of an enumerated hyphen-only body.
MaxDash == 7
\* Bytes the inbound stream hands over per chunk.
ChunkSize == 48

CRLF == <<13, 10>>

\* req.method
Methods == {"POST", "GET", "post"}

\* process.env.PROCESSOR_URL: unset, empty, or a base URL.
Envs == {None, Some(""), Some("http://processor")}

\* "multipart/form-data; "
Mfd == <<109, 117, 108, 116, 105, 112, 97, 114, 116, 47, 102, 111, 114, 109, 45, 100, 97, 116, 97, 59, 32>>
\* req.headers["content-type"]: absent, or a header value.  Header values
\* hold no CR or LF (the HTTP parser rejects them).
ContentTypes ==
  {None} \cup
  { Some(Mfd \o tail) :
      tail \in { <<>>,                        \* no boundary= token
                 BoundaryTok,                 \* boundary= with nothing after it
                 BoundaryTok \o <<88, 89>>,   \* boundary=XY
                 BoundaryTok \o <<88, 89, 59, 32, 99, 104, 97, 114, 115, 101, 116, 61, 97>>, \* boundary=XY; charset=a
                 BoundaryTok \o <<45>>,       \* boundary=-
                 <<120, 45, 98, 111, 117, 110, 100, 97, 114, 121, 61, 113, 59, 32>> \o BoundaryTok \o <<88, 89>> } } \* x-boundary=q; boundary=XY

\* The boundary the multi-part bodies are framed with, and its marker.
BodyBoundary == <<88, 89>>
BodyMarker == DashDash \o BodyBoundary
\* The boundaries the single-part bodies are framed with: XY and -
BodyBoundaries == {BodyBoundary, <<45>>}

\* File names a part declares (code units): plain, the placeholder's own
\* text, a two-byte character, and one holding U+2028.
Filenames ==
  { <<114, 101, 112, 111, 114, 116, 46, 112, 100, 102>>,    \* report.pdf
    DefaultFilename,
    <<233>>,                      \* e with acute accent
    <<97, 8232, 98>> }            \* a U+2028 b

\* Content-Disposition: form-data; name="file"; filename="F"
FileHeader(F) ==
  <<67, 111, 110, 116, 101, 110, 116, 45, 68, 105, 115, 112, 111, 115, 105, 116, 105, 111, 110, 58, 32, 102, 111, 114, 109, 45, 100, 97, 116, 97, 59, 32, 110, 97, 109, 101, 61, 34, 102, 105, 108, 101, 34, 59, 32, 102, 105, 108, 101, 110, 97, 109, 101, 61, 34>>
  \o Utf8Encode(F) \o QuoteChar

\* Payloads of the single-part bodies.
Payloads ==
  { <<>>,
    <<112>>,                                  \* p
    CRLF,
    HeaderSep,
    <<112>> \o HeaderSep \o <<113>>,          \* p CRLF CRLF q
    <<45>>,                                   \* -
    <<45, 45, 88>>,                           \* --X
    FilenameTok \o <<122>> \o QuoteChar,      \* filename="z"
    <<255, 0>>,                               \* not UTF-8
    <<45, 45, 45>>,                           \* ---: the marker of boundary -
    <<112>> \o BodyMarker \o <<113>> }        \* p--XYq: holds the marker

\* --B CRLF headers CRLF CRLF P CRLF --B--
WellFormed(B, headers, P) ==
  DashDash \o B \o CRLF \o headers \o HeaderSep \o P \o CRLF
  \o DashDash \o B \o DashDash

SinglePartBodies ==
  { WellFormed(B, FileHeader(F), P) :
      B \in BodyBoundaries, F \in Filenames, P \in Payloads }

\* What stands between two markers of a multi-part body.
Segments ==
  { \* a file part: filename="a" CRLF CRLF p
    CRLF \o FilenameTok \o <<97>> \o QuoteChar \o HeaderSep \o <<112>> \o CRLF,
    \* a file part: n="f"; filename="b" CRLF CRLF q CRLF r
    CRLF \o <<110, 61, 34, 102, 34, 59, 32>> \o FilenameTok \o <<98>> \o QuoteChar
         \o HeaderSep \o <<113>> \o CRLF \o <<114>> \o CRLF,
    \* a field whose payload mentions a file name: n="t" CRLF CRLF filename="z"
    CRLF \o <<110, 61, 34, 116, 34>> \o HeaderSep
         \o FilenameTok \o <<122>> \o QuoteChar \o CRLF,
    \* a part without the separator: filename="c" CRLF v
    CRLF \o FilenameTok \o <<99>> \o QuoteChar \o CRLF \o <<118>> \o CRLF,
    \* nothing at all: the next marker follows at once
    <<>> }

\* marker seg_1 marker seg_2 ... marker seg_n
RECURSIVE Framed(_)
Framed(segs) ==
  IF segs = <<>> THEN <<>> ELSE BodyMarker \o Head(segs) \o Framed(Tail(segs))

MultiPartBodies ==
  { <<112>> } \cup           \* a body without any marker
  { Framed(segs) \o BodyMarker \o DashDash \o CRLF :
      segs \in UNION { [1..n -> Segments] : n \in 0..MaxParts } }

RECURSIVE Dashes(_)
Dashes(n) == IF n = 0 THEN <<>> ELSE <<45>> \o Dashes(n - 1)

\* Runs of hyphens around aaaaa: bodies in which the marker of boundary "-"
\* occurs at overlapping offsets.
DashBodies ==
  { Dashes(n) \o <<97, 97, 97, 97, 97>> \o Dashes(m) : n, m \in 0..MaxDash }

Bodies == SinglePartBodies \cup MultiPartBodies \cup DashBodies

\* Responses of the downstream service.
DownstreamStatuses == {201, 500}
DownstreamContentTypes == {None, Some("application/json")}
DownstreamBodies == { <<>>, <<123, 34, 105, 100, 34, 58, 52, 50, 125>> }   \* {"id":42}
DownstreamResponses ==
  [status : DownstreamStatuses, contentType : DownstreamContentTypes,
   body : DownstreamBodies]

(***************************************************************************)
(* State of one invocation of handler(req, res).                           *)
(***************************************************************************)
VARIABLES
  method,        \* req.method
  PROCESSOR_URL,           \* process.env.PROCESSOR_URL
  reqContentType,\* req.headers["content-type"]
  remaining,     \* bytes of the request body the stream has not handed over yet
  envRead,       \* process.env.PROCESSOR_URL has been read
  chunks,        \* const chunks
  body,          \* const body, null until Buffer.concat has run
  boundary,      \* const boundary
  boundaryBuf,   \* const boundaryBuf
  parts,         \* const parts
  start,         \* let start
  partIndex,     \* position of the for-of loop over parts (0-based)
  filename,      \* let filename
  fileBuffer,    \* let fileBuffer
  calls,         \* the requests fetch has issued
  resp,          \* const resp
  output,        \* const output
  err,           \* the value thrown, if any
  responses,     \* the responses written to res
  pc,            \* the statement the handler is at
  trace          \* the statements executed so far

vars == <<method, PROCESSOR_URL, reqContentType, remaining, envRead, chunks, body,
          boundary, boundaryBuf, parts, start, partIndex, filename, fileBuffer,
          calls, resp, output, err, responses, pc, trace>>

\* A try block opened after the boundary check.
TryStagesAfterBoundary ==
  {"split", "select", "check", "post", "await", "read", "relay"}

\* The statements inside try { ... } of lines 27-87.
TryStages ==
  {"buffer", "boundary", "split", "select", "check", "post", "await", "read", "relay"}

\* A throw at statement at: to the catch clause when inside the try block,
\* out of the handler otherwise.
ThrowTarget(at) == IF at \in TryStages THEN "catch" ELSE "uncaught"

\* String(err) of an Error
ErrString(e) == e.name \o ": " \o e.message

\* res.status(status).json({ error }) and res.status(status).json({ error, detail })
JsonResponse(status, error, detail) ==
  [status |-> status, kind |-> "json", error |-> error, detail |-> detail,
   contentType |-> None, raw |-> <<>>]

\* The JavaScript value null where a header value is expected (it is written
\* out as the text null).
JsNull == "null"

\* resp.headers.get("content-type"): null for a header that is absent.
HeadersGet(r) == IF r.contentType = None THEN JsNull ELSE r.contentType[1]

\* res.setHeader("Content-Type", value); res.status(status).send(raw): the
\* header is set to whatever value is, null included.
RawResponse(status, value, raw) ==
  [status |-> status, kind |-> "raw", error |-> "", detail |-> "",
   contentType |-> Some(value), raw |-> raw]

\* The request fetch sends: PROCESSOR_URL + "/upload", method POST, a form
\* with the single field "file".
UploadCall(url, name, content) ==
  [url |-> url \o "/upload", method |-> "POST", field |-> "file",
   filename |-> name, content |-> content]

\* A comparison that ignores case.
MethodAllowedAnyCase(m) == m \in {"POST", "post"}

\* line 16: req.method !== "POST" is false
MethodAllowed(m) == m = "POST"

\* A test for undefined alone.
UrlMissingUndefinedOnly(e) == e = None

\* line 22: !PROCESSOR_URL holds for undefined and for ""
UrlMissing(e) == e = None \/ e[1] = ""

\* A slice from the end of one marker to the start of the next.
PartOfUntrimmed(buf, from, markerLen, next) == Slice(buf, from + markerLen, next)

\* line 47: body.slice(start + boundaryBuf.length + 2, next - 2)
PartOf(buf, from, markerLen, next) == Slice(buf, from + markerLen + 2, next - 2)

\* A search for the first CRLF.
HeaderEndOfCrlf(part) == IndexOf(part, <<13, 10>>, 0)

\* line 56: part.indexOf("\r\n\r\n")
HeaderEndOf(part) == IndexOf(part, HeaderSep, 0)

\* A loop without the break.
SelectNextNoBreak(matched, i) == [pc |-> "select", partIndex |-> i + 1]

\* lines 62-66: a match ends the loop (break), no match moves on to the next
\* part.
SelectNext(matched, i) ==
  IF matched THEN [pc |-> "check", partIndex |-> i]
  ELSE [pc |-> "select", partIndex |-> i + 1]

\* line 69: !fileBuffer; only null is falsy, an empty Buffer is not
FileMissing(fb) == fb = None

Init ==
  /\ method \in Methods
  /\ PROCESSOR_URL \in Envs
  /\ reqContentType \in ContentTypes
  /\ remaining \in Bodies
  /\ envRead = FALSE
  /\ chunks = <<>>
  /\ body = None
  /\ boundary = None
  /\ boundaryBuf = <<>>
  /\ parts = <<>>
  /\ start = -1
  /\ partIndex = 0
  /\ filename = DefaultFilename
  /\ fileBuffer = None
  /\ calls = <<>>
  /\ resp = None
  /\ output = <<>>
  /\ err = None
  /\ responses = <<>>
  /\ pc = "method"
  /\ trace = <<>>

\* Every action is one statement: it records itself in trace.
Step(at) == pc = at /\ trace' = Append(trace, at)

\* lines 16-19
CheckMethod ==
  /\ Step("method")
  /\ IF ~MethodAllowed(method)
     THEN /\ responses' = Append(responses, JsonResponse(405, "Only POST supported", ""))
          /\ pc' = "done"
     ELSE /\ pc' = "env"
          /\ UNCHANGED responses
  /\ UNCHANGED <<method, PROCESSOR_URL, reqContentType, remaining, envRead, chunks, body,
                 boundary, boundaryBuf, parts, start, partIndex, filename,
                 fileBuffer, calls, resp, output, err>>

\* lines 21-25
CheckProcessorUrl ==
  /\ Step("env")
  /\ envRead' = TRUE
  /\ IF UrlMissing(PROCESSOR_URL)
     THEN /\ responses' = Append(responses,
                 JsonResponse(500, "PROCESSOR_URL env variable missing", ""))
          /\ pc' = "done"
     ELSE /\ pc' = "buffer"
          /\ UNCHANGED responses
  /\ UNCHANGED <<method, PROCESSOR_URL, reqContentType, remaining, chunks, body,
                 boundary, boundaryBuf, parts, start, partIndex, filename,
                 fileBuffer, calls, resp, output, err>>

\* line 29, one iteration: the stream hands over its next chunk
ReadChunk ==
  /\ Step("buffer")
  /\ remaining # <<>>
  /\ LET n == Min(ChunkSize, Len(remaining))
     IN  /\ chunks' = Append(chunks, SubSeq(remaining, 1, n))
         /\ remaining' = SubSeq(remaining, n + 1, Len(remaining))
  /\ pc' = "buffer"
  /\ UNCHANGED <<method, PROCESSOR_URL, reqContentType, envRead, body, boundary,
                 boundaryBuf, parts, start, partIndex, filename, fileBuffer,
                 calls, resp, output, err, responses>>

\* line 29: the stream fails (the connection drops) and the iteration throws
StreamFails ==
  /\ Step("buffer")
  /\ err' = Some([name |-> "Error", message |-> "aborted"])
  /\ pc' = ThrowTarget("buffer")
  /\ UNCHANGED <<method, PROCESSOR_URL, reqContentType, remaining, envRead, chunks, body,
                 boundary, boundaryBuf, parts, start, partIndex, filename,
                 fileBuffer, calls, resp, output, responses>>

\* lines 29-30: the stream ends; body = Buffer.concat(chunks)
EndOfBody ==
  /\ Step("buffer")
  /\ remaining = <<>>
  /\ body' = Some(Concat(chunks))
  /\ pc' = "boundary"
  /\ UNCHANGED <<method, PROCESSOR_URL, reqContentType, remaining, envRead, chunks,
                 boundary, boundaryBuf, parts, start, partIndex, filename,
                 fileBuffer, calls, resp, output, err, responses>>

\* lines 32-43: contentType.match throws a TypeError when the header is
\* absent; a falsy boundary is answered 400; otherwise the marker is built
\* and the first occurrence looked up.
ResolveBoundary ==
  /\ Step("boundary")
  /\ IF reqContentType = None
     THEN /\ err' = Some([name |-> "TypeError",
                          message |-> "Cannot read properties of undefined (reading 'match')"])
          /\ pc' = ThrowTarget("boundary")
          /\ UNCHANGED <<boundary, boundaryBuf, start, responses>>
     ELSE LET b == getBoundary(reqContentType[1])
          IN  IF Falsy(b)
              THEN /\ boundary' = b
                   /\ responses' = Append(responses,
                          JsonResponse(400, "Invalid multipart/form-data", ""))
                   /\ pc' = "done"
                   /\ UNCHANGED <<boundaryBuf, start, err>>
              ELSE LET buf == Utf8Encode(DashDash \o b[1])
                   IN  /\ boundary' = b
                       /\ boundaryBuf' = buf
                       /\ start' = IndexOf(body[1], buf, 0)
                       /\ pc' = "split"
                       /\ UNCHANGED <<responses, err>>
  /\ UNCHANGED <<method, PROCESSOR_URL, reqContentType, remaining, envRead, chunks, body,
                 parts, partIndex, filename, fileBuffer, calls, resp, output>>

\* lines 44-50, one evaluation of the loop condition and of the loop body
SplitStep ==
  /\ Step("split")
  /\ LET next == IF start = -1 THEN -1
                 ELSE IndexOf(body[1], boundaryBuf, start + Len(boundaryBuf))
     IN  IF next = -1
         THEN /\ pc' = "select"
              /\ UNCHANGED <<parts, start>>
         ELSE /\ parts' = Append(parts,
                     PartOf(body[1], start, Len(boundaryBuf), next))
              /\ start' = next
              /\ pc' = "split"
  /\ UNCHANGED <<method, PROCESSOR_URL, reqContentType, remaining, envRead, chunks, body,
                 boundary, boundaryBuf, partIndex, filename, fileBuffer, calls,
                 resp, output, err, responses>>

\* lines 55-67, one iteration of the loop over parts (or its end)
SelectStep ==
  /\ Step("select")
  /\ IF partIndex >= Len(parts)
     THEN /\ pc' = "check"
          /\ UNCHANGED <<partIndex, filename, fileBuffer>>
     ELSE LET part == parts[partIndex + 1]
              headerEnd == HeaderEndOf(part)
              header == Utf8Decode(Slice(part, 0, headerEnd))
              m == IF headerEnd = -1 THEN None ELSE fileMatch(header)
              to == SelectNext(m # None, partIndex)
          IN  /\ IF m = None
                 THEN UNCHANGED <<filename, fileBuffer>>
                 ELSE /\ filename' = m[1]
                      /\ fileBuffer' = Some(SliceFrom(part, headerEnd + 4))
              /\ partIndex' = to.partIndex
              /\ pc' = to.pc
  /\ UNCHANGED <<method, PROCESSOR_URL, reqContentType, remaining, envRead, chunks, body,
                 boundary, boundaryBuf, parts, start, calls, resp, output, err,
                 responses>>

\* lines 69-72
CheckFile ==
  /\ Step("check")
  /\ IF FileMissing(fileBuffer)
     THEN /\ responses' = Append(responses,
                 JsonResponse(400, "No file found in request", ""))
          /\ pc' = "done"
     ELSE /\ pc' = "post"
          /\ UNCHANGED responses
  /\ UNCHANGED <<method, PROCESSOR_URL, reqContentType, remaining, envRead, chunks, body,
                 boundary, boundaryBuf, parts, start, partIndex, filename,
                 fileBuffer, calls, resp, output, err>>

\* lines 74-81: the form is built and fetch issues the request
PostDownstream ==
  /\ Step("post")
  /\ calls' = Append(calls, UploadCall(PROCESSOR_URL[1], filename, fileBuffer[1]))
  /\ pc' = "await"
  /\ UNCHANGED <<method, PROCESSOR_URL, reqContentType, remaining, envRead, chunks, body,
                 boundary, boundaryBuf, parts, start, partIndex, filename,
                 fileBuffer, resp, output, err, responses>>

\* line 77: fetch resolves with the downstream response, whatever its status
DownstreamResponds ==
  /\ Step("await")
  /\ \E r \in DownstreamResponses : resp' = Some(r)
  /\ pc' = "read"
  /\ UNCHANGED <<method, PROCESSOR_URL, reqContentType, remaining, envRead, chunks, body,
                 boundary, boundaryBuf, parts, start, partIndex, filename,
                 fileBuffer, calls, output, err, responses>>

\* line 77: fetch rejects (the transport fails)
DownstreamFails ==
  /\ Step("await")
  /\ err' = Some([name |-> "FetchError", message |-> "request failed"])
  /\ pc' = ThrowTarget("await")
  /\ UNCHANGED <<method, PROCESSOR_URL, reqContentType, remaining, envRead, chunks, body,
                 boundary, boundaryBuf, parts, start, partIndex, filename,
                 fileBuffer, calls, resp, output, responses>>

\* line 83: resp.arrayBuffer() resolves with the body
ReadOutput ==
  /\ Step("read")
  /\ output' = resp[1].body
  /\ pc' = "relay"
  /\ UNCHANGED <<method, PROCESSOR_URL, reqContentType, remaining, envRead, chunks, body,
                 boundary, boundaryBuf, parts, start, partIndex, filename,
                 fileBuffer, calls, resp, err, responses>>

\* line 83: resp.arrayBuffer() rejects (the downstream body breaks off)
ReadOutputFails ==
  /\ Step("read")
  /\ err' = Some([name |-> "FetchError", message |-> "body read failed"])
  /\ pc' = ThrowTarget("read")
  /\ UNCHANGED <<method, PROCESSOR_URL, reqContentType, remaining, envRead, chunks, body,
                 boundary, boundaryBuf, parts, start, partIndex, filename,
                 fileBuffer, calls, resp, output, responses>>

\* lines 84-85
Relay ==
  /\ Step("relay")
  /\ responses' = Append(responses,
         RawResponse(resp[1].status, HeadersGet(resp[1]), output))
  /\ pc' = "done"
  /\ UNCHANGED <<method, PROCESSOR_URL, reqContentType, remaining, envRead, chunks, body,
                 boundary, boundaryBuf, parts, start, partIndex, filename,
                 fileBuffer, calls, resp, output, err>>

\* lines 87-90
Catch ==
  /\ Step("catch")
  /\ responses' = Append(responses,
         JsonResponse(500, "Proxy failed", ErrString(err[1])))
  /\ pc' = "done"
  /\ UNCHANGED <<method, PROCESSOR_URL, reqContentType, remaining, envRead, chunks, body,
                 boundary, boundaryBuf, parts, start, partIndex, filename,
                 fileBuffer, calls, resp, output, err>>

Next ==
  \/ CheckMethod
  \/ CheckProcessorUrl
  \/ ReadChunk
  \/ StreamFails
  \/ EndOfBody
  \/ ResolveBoundary
  \/ SplitStep
  \/ SelectStep
  \/ CheckFile
  \/ PostDownstream
  \/ DownstreamResponds
  \/ DownstreamFails
  \/ ReadOutput
  \/ ReadOutputFails
  \/ Relay
  \/ Catch

Spec == Init /\ [][Next]_vars

(***************************************************************************)
(* Vocabulary of the properties, stated without the handler's loops.       *)
(***************************************************************************)
\* The statement at has been executed.
Ran(at) == \E i \in DOMAIN trace : trace[i] = at

\* Bytes of buf at offsets from .. to - 1; empty when the range is inverted.
ByteRange(buf, from, to) ==
  IF to <= from THEN <<>> ELSE [j \in 1..(to - from) |-> buf[from + j]]

\* Least offset >= from at which needle occurs in buf, -1 if there is none.
FirstAtOrAfter(buf, needle, from) ==
  LET Occ == { p \in from..(Len(buf) - Len(needle)) : MatchesAt(buf, needle, p) }
  IN  IF Occ = {} THEN -1 ELSE CHOOSE p \in Occ : \A q \in Occ : p <= q

Contains(buf, needle) == FirstAtOrAfter(buf, needle, 0) # -1

\* s_1 < ... < s_k: the non-overlapping occurrences of marker, left to right.
RECURSIVE MarkerOffsets(_, _, _)
MarkerOffsets(buf, marker, from) ==
  LET p == FirstAtOrAfter(buf, marker, from)
  IN  IF p = -1 THEN <<>> ELSE <<p>> \o MarkerOffsets(buf, marker, p + Len(marker))

\* Part i is the range s_i + L + 2 .. s_(i+1) - 2; there are max(k - 1, 0).
ExpectedParts(buf, marker) ==
  LET s == MarkerOffsets(buf, marker, 0)
  IN  [i \in 1..Max(Len(s) - 1, 0) |->
         ByteRange(buf, s[i] + Len(marker) + 2, s[i + 1] - 2)]

\* The text after the first boundary= token of a header value, null when the
\* value holds no such token.
ExpectedBoundary(value) ==
  LET at == FirstAtOrAfter(value, BoundaryTok, 0)
  IN  IF at = -1 THEN None
      ELSE Some(ByteRange(value, at + Len(BoundaryTok), Len(value)))

\* The header text of a part: what precedes its first CRLF CRLF.
HasSeparator(part) == Contains(part, HeaderSep)
HeaderText(part) == Utf8Decode(ByteRange(part, 0, FirstAtOrAfter(part, HeaderSep, 0)))
PayloadOf(part) ==
  ByteRange(part, FirstAtOrAfter(part, HeaderSep, 0) + Len(HeaderSep), Len(part))

\* text holds filename=" at offset i, a closing quote at offset k, and
\* between them at least one character and no line terminator.
NamedAt(text, i, k) ==
  /\ MatchesAt(text, FilenameTok, i)
  /\ k > i + Len(FilenameTok)
  /\ k < Len(text)
  /\ text[k + 1] = QuoteChar[1]
  /\ \A j \in (i + Len(FilenameTok))..(k - 1) : text[j + 1] \notin LineTerminators

HasFilenameAttr(text) ==
  \E i \in 0..Len(text) :
    MatchesAt(text, FilenameTok, i) /\ \E k \in i..Len(text) : NamedAt(text, i, k)

\* The name of the leftmost attribute, up to its nearest closing quote.
DeclaredName(text) ==
  LET I == { i \in 0..Len(text) :
               MatchesAt(text, FilenameTok, i) /\ \E k \in i..Len(text) : NamedAt(text, i, k) }
      i0 == CHOOSE i \in I : \A j \in I : i <= j
      K == { k \in i0..Len(text) : NamedAt(text, i0, k) }
      k0 == CHOOSE k \in K : \A j \in K : k <= j
  IN  ByteRange(text, i0 + Len(FilenameTok), k0)

\* A part a file can be taken from.
Qualifies(part) == HasSeparator(part) /\ HasFilenameAttr(HeaderText(part))

Posted == method = "POST" /\ PROCESSOR_URL # None /\ PROCESSOR_URL[1] # ""
Buffered == body # None
SelectDone == pc = "check" \/ Ran("check")

(***************************************************************************)
(* Properties.                                                             *)
(***************************************************************************)

\* C4 (method gating): a request whose method is not POST is answered 405
\* {"error": "Only POST supported"} whatever its headers, its body and the
\* state of PROCESSOR_URL, and the handler does nothing else: it never reads
\* PROCESSOR_URL, never takes a byte of the body off the stream and never
\* calls the downstream service.
MethodGating ==
  method # "POST" =>
    /\ pc \in {"method", "done"}
    /\ pc = "done" => responses = <<JsonResponse(405, "Only POST supported", "")>>
    /\ ~envRead
    /\ chunks = <<>> /\ body = None
    /\ calls = <<>>

\* C4 witness: a GET without PROCESSOR_URL and without Content-Type, with a
\* body that would otherwise yield a file, has been answered.
MethodGatingWitness ==
  /\ method = "GET" /\ pc = "done"
  /\ PROCESSOR_URL = None /\ reqContentType = None
  /\ remaining \in SinglePartBodies

\* C8 (boundary resolution): once the boundary is resolved from a
\* Content-Type value, it is exactly the text that follows the first
\* boundary= token up to the end of the value (quotes, semicolons and further
\* parameters included), and it is null exactly when the value holds no
\* boundary= token.
BoundaryResolution ==
  (reqContentType # None /\ Ran("boundary")) =>
    /\ boundary = ExpectedBoundary(reqContentType[1])
    /\ boundary = None <=> ~Contains(reqContentType[1], BoundaryTok)

\* C8 witness: a value with a second boundary= token and a semicolon after the
\* first one has been resolved to everything after the first token.
BoundaryResolutionWitness ==
  /\ Ran("boundary")
  /\ boundary # None
  /\ Contains(boundary[1], BoundaryTok)
  /\ Contains(boundary[1], <<59>>)

\* C9 (part splitting): when the splitting loop has ended, the parts are
\* exactly the max(k - 1, 0) byte ranges s_i + L + 2 .. s_(i+1) - 2 between
\* consecutive non-overlapping occurrences s_1 < ... < s_k of the marker
\* "--" + boundary (L its length), in order, an inverted range giving an empty
\* part; the last occurrence starts no part.  While the loop runs, it has
\* produced the first n of these parts and stands at s_(n+1), so it ends
\* after at most k - 1 parts.
PartSplitting ==
  /\ (pc = "select" \/ Ran("select")) =>
       parts = ExpectedParts(body[1], DashDash \o boundary[1])
  /\ pc = "split" =>
       LET s == MarkerOffsets(body[1], DashDash \o boundary[1], 0)
           done == Len(parts)
       IN  /\ done <= Max(Len(s) - 1, 0)
           /\ start = IF s = <<>> THEN -1 ELSE s[done + 1]
           /\ parts = SubSeq(ExpectedParts(body[1], DashDash \o boundary[1]), 1, done)

\* C9 witness: a body with at least three occurrences, the marker also
\* occurring at an overlapping offset that the scan passes over, one range
\* inverted and one not.
PartSplittingWitness ==
  /\ pc = "select"
  /\ Len(parts) >= 2
  /\ \E i \in DOMAIN parts : parts[i] = <<>>
  /\ \E i \in DOMAIN parts : parts[i] # <<>>
  /\ \E p \in 1..Len(body[1]) :
       /\ MatchesAt(body[1], boundaryBuf, p)
       /\ MatchesAt(body[1], boundaryBuf, p - 1)

\* C2 (first file wins): when the selection loop has ended, the file is the
\* declared name and the payload of the lowest-indexed part that has a
\* CRLF CRLF separator and a filename="..." attribute in the text before it;
\* the parts before it are passed over without an error, the parts after it
\* change nothing, and what is forwarded downstream is that name (never the
\* placeholder kept from initialisation) and that payload.  Without such a
\* part there is no file and nothing is forwarded.
FirstFileWins ==
  SelectDone =>
    LET Q == { i \in DOMAIN parts : Qualifies(parts[i]) }
    IN  IF Q = {}
        THEN fileBuffer = None /\ calls = <<>>
        ELSE LET w == CHOOSE i \in Q : \A j \in Q : i <= j
                 name == DeclaredName(HeaderText(parts[w]))
             IN  /\ filename = name
                 /\ fileBuffer = Some(PayloadOf(parts[w]))
                 /\ pc = "check" => err = None
                 /\ Ran("post") => Len(calls) = 1
                 /\ \A c \in DOMAIN calls :
                      calls[c].filename = name /\ calls[c].content = PayloadOf(parts[w])

\* C2 witness: three parts, the first without a file name in its header, the
\* second and the third each declaring one (different names); the file has
\* been forwarded.
FirstFileWinsWitness ==
  /\ pc = "await"
  /\ Len(parts) = 3
  /\ HasSeparator(parts[1]) /\ ~Qualifies(parts[1])
  /\ Qualifies(parts[2]) /\ Qualifies(parts[3])
  /\ DeclaredName(HeaderText(parts[2])) # DeclaredName(HeaderText(parts[3]))
  /\ Len(calls) = 1

\* C6 (no file found): a POST with PROCESSOR_URL set, the body buffered and a
\* non-empty boundary, in whose body no part has both a separator and a
\* filename="..." attribute before it (no marker, one marker, no separator,
\* no attribute), is answered 400 {"error": "No file found in request"} and
\* the downstream service is not called.
NoFileFound ==
  ( /\ pc = "done" /\ Posted /\ Buffered
    /\ reqContentType # None
    /\ ~Falsy(ExpectedBoundary(reqContentType[1]))
    /\ LET ps == ExpectedParts(body[1],
                   DashDash \o ExpectedBoundary(reqContentType[1])[1])
       IN  \A i \in DOMAIN ps : ~Qualifies(ps[i]) )
  => /\ responses = <<JsonResponse(400, "No file found in request", "")>>
     /\ calls = <<>>

\* C6 witness: the body has parts, one of them shows filename=" but has no
\* separator, another has a separator but no attribute in its header, and
\* the request has been answered.
NoFileFoundWitness ==
  /\ pc = "done" /\ Ran("check")
  /\ fileBuffer = None
  /\ \E i \in DOMAIN parts :
       ~HasSeparator(parts[i]) /\ Contains(parts[i], FilenameTok)
  /\ \E i \in DOMAIN parts :
       HasSeparator(parts[i]) /\ ~HasFilenameAttr(HeaderText(parts[i]))

\* C7 (failure containment): whatever fails while the body is buffered, the
\* boundary resolved, the parts parsed or the downstream service called and
\* read, no exception leaves the handler; the failure is answered 500
\* {"error": "Proxy failed", "detail": String(err)}; until the answer the
\* handler is at a statement of its own, nothing is written before the
\* answer, and a handler that has finished has answered exactly once.
FailureContainment ==
  /\ pc # "uncaught"
  /\ pc # "done" =>
       /\ responses = <<>>
       /\ pc \in {"method", "env", "buffer", "boundary", "split", "select", "check",
                  "post", "await", "read", "relay", "catch"}
  /\ pc = "done" => Len(responses) = 1
  /\ (pc = "done" /\ err # None) =>
       responses = <<JsonResponse(500, "Proxy failed", ErrString(err[1]))>>

\* C7 witness: the downstream call itself failed and the request has been
\* answered.
FailureContainmentWitness ==
  /\ pc = "done"
  /\ err # None /\ err[1].name = "FetchError"
  /\ Len(calls) = 1 /\ resp = None

\* The stage of the pipeline a statement belongs to.
Stage(at) ==
  CASE at = "method" -> 1
    [] at = "env" -> 2
    [] at = "buffer" -> 3
    [] at = "boundary" -> 4
    [] at = "split" -> 5
    [] at \in {"select", "check"} -> 6
    [] at \in {"post", "await"} -> 7
    [] at \in {"read", "relay"} -> 8
    [] OTHER -> 9

\* C10 (pipeline ordering): the stages run in the order method check,
\* PROCESSOR_URL check, body buffering, boundary resolution, part splitting,
\* file selection, downstream POST, relay, none skipped and none revisited;
\* the first stage that fails answers (405, then 500 PROCESSOR_URL missing,
\* then 400 invalid multipart, then 400 no file) and nothing runs after the
\* answer; the downstream POST goes to PROCESSOR_URL + "/upload" at most once,
\* only after the body is fully buffered and a file is extracted, and never
\* when reading the body failed.
PipelineOrdering ==
  /\ \A i \in DOMAIN trace :
       /\ i = 1 => trace[i] = "method"
       /\ i > 1 => \/ Stage(trace[i]) = Stage(trace[i - 1])
                   \/ Stage(trace[i]) = Stage(trace[i - 1]) + 1
                   \/ trace[i] = "catch"
  /\ pc # "done" => responses = <<>>
  /\ pc = "done" =>
       LET answer == responses[1]
           last == trace[Len(trace)]
       IN  /\ Len(responses) = 1
           /\ ~ENABLED Next
           \* the stage that ran last is the one that answered
           /\ last = "method" =>
                answer = JsonResponse(405, "Only POST supported", "")
           /\ last = "env" =>
                answer = JsonResponse(500, "PROCESSOR_URL env variable missing", "")
           /\ last = "boundary" =>
                answer = JsonResponse(400, "Invalid multipart/form-data", "")
           /\ last = "check" =>
                answer = JsonResponse(400, "No file found in request", "")
           /\ last = "catch" => (answer.status = 500 /\ answer.error = "Proxy failed")
           /\ last \in {"method", "env", "boundary", "check", "catch", "relay"}
           \* an earlier failure wins over every later one
           /\ method # "POST" => last = "method"
           /\ (method = "POST" /\ ~Posted) => last = "env"
           /\ (Posted /\ Buffered /\ reqContentType # None
                 /\ Falsy(ExpectedBoundary(reqContentType[1]))) => last = "boundary"
           /\ (Ran("check") /\ fileBuffer = None) => last = "check"
  /\ Len(calls) <= 1
  /\ \A c \in DOMAIN calls :
       /\ calls[c].url = PROCESSOR_URL[1] \o "/upload" /\ calls[c].method = "POST"
       /\ Buffered /\ remaining = <<>> /\ fileBuffer # None
       /\ Ran("check")
  /\ (err # None /\ ~Buffered) => calls = <<>>

\* C10 witness: a request went through every stage and has been answered
\* from the relay.
PipelineOrderingWitness ==
  /\ pc = "done"
  /\ \A n \in 1..8 : \E i \in DOMAIN trace : Stage(trace[i]) = n
  /\ trace[Len(trace)] = "relay"
  /\ Len(chunks) >= 2

\* The request body is the single-part body --B CRLF headers CRLF CRLF P
\* CRLF --B-- declaring file name F, B is the boundary of the request, and P
\* does not hold the marker --B.
IsRoundTripCase(B, F, P) ==
  /\ Posted /\ Buffered
  /\ reqContentType # None
  /\ ExpectedBoundary(reqContentType[1]) = Some(B)
  /\ body = Some(WellFormed(B, FileHeader(F), P))
  /\ ~Contains(P, DashDash \o B)

\* C1 (round-trip extraction): for every single-part body --B CRLF headers
\* CRLF CRLF P CRLF --B-- whose headers declare filename="F", F non-empty,
\* and whose payload P does not hold the marker --B (P empty, P holding CRLF
\* or CRLF CRLF included), the extraction yields the file name F and the
\* payload P byte for byte: that file is what has been handed to the
\* downstream call when the request is answered.
RoundTripExtraction ==
  \A B \in BodyBoundaries, F \in Filenames, P \in Payloads :
    (pc = "done" /\ IsRoundTripCase(B, F, P)) =>
      /\ Len(calls) = 1
      /\ calls[1].filename = F
      /\ calls[1].content = P

\* C1, for the file names without a line terminator (CR, LF, U+2028,
\* U+2029): the round trip holds.
RoundTripPlainNames ==
  \A B \in BodyBoundaries, F \in Filenames, P \in Payloads :
    ( /\ pc = "done" /\ IsRoundTripCase(B, F, P)
      /\ \A k \in DOMAIN F : F[k] \notin LineTerminators ) =>
      /\ Len(calls) = 1
      /\ calls[1].filename = F
      /\ calls[1].content = P

\* C3 (downstream relay): when the downstream response has been relayed, the
\* one response of the proxy has the status, the Content-Type header (none
\* when the downstream response carries none) and the body bytes of the
\* downstream response.
DownstreamRelay ==
  (pc = "done" /\ Ran("relay")) =>
    /\ Len(responses) = 1
    /\ responses[1].kind = "raw"
    /\ responses[1].status = resp[1].status
    /\ responses[1].contentType = resp[1].contentType
    /\ responses[1].raw = resp[1].body

\* C3, for the downstream responses that carry a Content-Type header: status,
\* header and body are relayed unchanged.
DownstreamRelayWithHeader ==
  (pc = "done" /\ Ran("relay") /\ resp[1].contentType # None) =>
    /\ Len(responses) = 1
    /\ responses[1].kind = "raw"
    /\ responses[1].status = resp[1].status
    /\ responses[1].contentType = resp[1].contentType
    /\ responses[1].raw = resp[1].body

\* No non-empty boundary can be derived from the request: no Content-Type
\* header, no boundary= token in it, or nothing after the token.
NoBoundary ==
  \/ reqContentType = None
  \/ Falsy(ExpectedBoundary(reqContentType[1]))

\* C5 (missing boundary): a POST with PROCESSOR_URL set and the body buffered,
\* from which no non-empty boundary can be derived (no boundary= token,
\* nothing after it, or no Content-Type header at all), is answered 400
\* {"error": "Invalid multipart/form-data"} and the downstream service is not
\* called.
MissingBoundary ==
  (pc = "done" /\ Posted /\ Buffered /\ NoBoundary) =>
    /\ responses = <<JsonResponse(400, "Invalid multipart/form-data", "")>>
    /\ calls = <<>>

\* C5, for the requests that carry a Content-Type header: the answer is the
\* 400 above.
MissingBoundaryWithHeader ==
  (pc = "done" /\ Posted /\ Buffered /\ NoBoundary /\ reqContentType # None) =>
    /\ responses = <<JsonResponse(400, "Invalid multipart/form-data", "")>>
    /\ calls = <<>>

====
